---- MODULE Spec2Model ----
(***************************************************************************)
(* Model of dfget/util/file_util.go: the file utilities of the dfget      *)
(* client, over a small POSIX-like file system (directory tree, inodes    *)
(* with hard links, a read-permission bit per inode).                     *)
(***************************************************************************)
EXTENDS Integers, Sequences, FiniteSets, TLC

\* ------------------------------------------------------------------ bounds
\* longest file content, in bytes
MaxLen == 2
\* number of inodes of the volume
MaxInodes == 2
\* longest argument list of DeleteFiles
MaxBatch == 2

\* The copy buffer, scaled from 8 MiB to one byte so that a file of MaxLen
\* bytes needs several read/write rounds.
BufferSize == 1

Bytes == {0, 1}
Contents == UNION {[1..n -> Bytes] : n \in 0..MaxLen}
Inodes == 1..MaxInodes

\* ------------------------------------------------------------------- paths
\* A path is the sequence of its components; Root is the working directory.
Root == <<>>
Paths == {<<"a">>, <<"b">>, <<"a", "c">>}

\* filepath.Dir: the path without its last component ("." for a bare name)
Dir(p) == SubSeq(p, 1, Len(p) - 1)

Prefix(p, n) == SubSeq(p, 1, n)

\* ------------------------------------------------------------- file system
NoEnt == [k |-> "none", ino |-> 0]
DirEnt == [k |-> "dir", ino |-> 0]
FileEnt(i) == [k |-> "file", ino |-> i]

Nil == "nil"

\* a call's outcome: the file system it leaves and the error it returns
R(f, e) == [fs |-> f, err |-> e]

EmptyFS ==
  [ent  |-> [p \in Paths |-> NoEnt],
   data |-> [i \in Inodes |-> <<>>],
   rd   |-> [i \in Inodes |-> TRUE]]

Ent(f, p) == IF p = Root THEN DirEnt ELSE f.ent[p]

Linked(f) == {f.ent[p].ino : p \in {q \in Paths : f.ent[q].k = "file"}}

\* an inode no directory entry and no open handle refers to is freed
Collect(f, held) ==
  [f EXCEPT !.data = [i \in Inodes |-> IF i \in Linked(f) \cup held THEN f.data[i] ELSE <<>>],
            !.rd   = [i \in Inodes |-> IF i \in Linked(f) \cup held THEN f.rd[i] ELSE TRUE]]

FreeInodes(f, held) == Inodes \ (Linked(f) \cup held)

Min(S) == CHOOSE x \in S : \A y \in S : x <= y

\* os.Stat: the error of the metadata lookup (it follows the path from Root)
StatErr(f, p) ==
  IF \E n \in 1..(Len(p) - 1) : Ent(f, Prefix(p, n)).k = "file" THEN "ENOTDIR"
  ELSE IF Ent(f, p).k = "none" THEN "ENOENT"
  ELSE Nil

\* os.IsNotExist
IsNotExist(e) == e = "ENOENT"

PathExist(f, name) == StatErr(f, name) = Nil

IsDir(f, name) == StatErr(f, name) = Nil /\ Ent(f, name).k = "dir"

IsRegularFile(f, name) == StatErr(f, name) = Nil /\ Ent(f, name).k = "file"

\* the error of creating an entry at p: its parent must be a directory
ParentErr(f, p) ==
  IF IsDir(f, Dir(p)) THEN Nil
  ELSE IF StatErr(f, Dir(p)) = Nil THEN "ENOTDIR"
  ELSE StatErr(f, Dir(p))

\* os.MkdirAll: p and every missing ancestor become directories
RECURSIVE MkdirAll(_, _)
MkdirAll(f, p) ==
  IF IsDir(f, p) THEN R(f, Nil)
  ELSE IF PathExist(f, p) THEN R(f, "ENOTDIR")
  ELSE LET up == MkdirAll(f, Dir(p)) IN
       IF up.err # Nil THEN up
       ELSE R([up.fs EXCEPT !.ent[p] = DirEnt], Nil)

\* os.Remove of a file, or of an empty directory
Remove(f, p, held) ==
  IF StatErr(f, p) # Nil THEN R(f, StatErr(f, p))
  ELSE IF Ent(f, p).k = "dir" /\ \E q \in Paths : Dir(q) = p /\ f.ent[q].k # "none"
       THEN R(f, "ENOTEMPTY")
  ELSE R(Collect([f EXCEPT !.ent[p] = NoEnt], held), Nil)

\* os.Rename of a file
Rename(f, src, dst, held) ==
  IF StatErr(f, src) # Nil THEN R(f, StatErr(f, src))
  ELSE IF ParentErr(f, dst) # Nil THEN R(f, ParentErr(f, dst))
  ELSE IF Ent(f, src).k = "dir" THEN R(f, "EINVAL")
  ELSE IF Ent(f, dst).k = "dir" THEN R(f, "EISDIR")
  ELSE IF Ent(f, dst) = Ent(f, src) THEN R(f, Nil)
  ELSE R(Collect([f EXCEPT !.ent[dst] = f.ent[src], !.ent[src] = NoEnt], held), Nil)

\* os.Link
OsLink(f, src, linkName) ==
  IF StatErr(f, src) # Nil THEN R(f, StatErr(f, src))
  ELSE IF Ent(f, src).k = "dir" THEN R(f, "EPERM")
  ELSE IF ParentErr(f, linkName) # Nil THEN R(f, ParentErr(f, linkName))
  ELSE IF Ent(f, linkName).k # "none" THEN R(f, "EEXIST")
  ELSE R([f EXCEPT !.ent[linkName] = f.ent[src]], Nil)

\* os.OpenFile. flag "r" is O_RDONLY, flag "w" is O_WRONLY|O_TRUNC|O_CREATE.
\* The result carries the inode of the handle (0: none, or a directory).
OsOpenFile(f, path, flag, held) ==
  LET fail(e) == [fs |-> f, err |-> e, ino |-> 0] IN
  IF flag = "r" THEN
    IF StatErr(f, path) # Nil THEN fail(StatErr(f, path))
    ELSE IF Ent(f, path).k = "dir" THEN [fs |-> f, err |-> Nil, ino |-> 0]
    ELSE IF ~f.rd[Ent(f, path).ino] THEN fail("EACCES")
    ELSE [fs |-> f, err |-> Nil, ino |-> Ent(f, path).ino]
  ELSE
    IF ParentErr(f, path) # Nil THEN fail(ParentErr(f, path))
    ELSE IF Ent(f, path).k = "dir" THEN fail("EISDIR")
    ELSE IF Ent(f, path).k = "file"
         THEN [fs |-> [f EXCEPT !.data[Ent(f, path).ino] = <<>>], err |-> Nil,
               ino |-> Ent(f, path).ino]
    ELSE IF FreeInodes(f, held) = {} THEN fail("ENOSPC")
    ELSE LET i == Min(FreeInodes(f, held)) IN
         [fs |-> [f EXCEPT !.ent[path] = FileEnt(i), !.data[i] = <<>>, !.rd[i] = TRUE],
          err |-> Nil, ino |-> i]

\* one Read of at most BufferSize bytes at offset off: the bytes read
\* (none at end of file)
ReadChunk(f, ino, off) ==
  LET d == f.data[ino]
      n == IF Len(d) - off < BufferSize THEN Len(d) - off ELSE BufferSize
  IN  SubSeq(d, off + 1, off + n)

\* one Write of chunk at offset off of the file; a gap before off reads 0
WriteChunk(f, ino, off, chunk) ==
  LET d == f.data[ino]
      n == IF Len(d) > off + Len(chunk) THEN Len(d) ELSE off + Len(chunk)
  IN  [f EXCEPT !.data[ino] =
         [i \in 1..n |-> IF i > off /\ i <= off + Len(chunk) THEN chunk[i - off]
                         ELSE IF i <= Len(d) THEN d[i] ELSE 0]]

\* ------------------------------------------------------------- the package
\* variant: os.Mkdir without the Stat, which refuses an existing directory
CreateDirectory_NoStat(f, dirPath) ==
  IF PathExist(f, dirPath) THEN R(f, "EEXIST") ELSE MkdirAll(f, dirPath)

CreateDirectory(f, dirPath) ==
  LET e == StatErr(f, dirPath) IN
  IF e # Nil /\ IsNotExist(e) THEN MkdirAll(f, dirPath)
  ELSE IF e = Nil /\ ~IsDir(f, dirPath) THEN R(f, "NotADirectory")
  ELSE R(f, e)

DeleteFile(f, filePath) ==
  IF ~PathExist(f, filePath) THEN R(f, "NotExist")
  ELSE IF IsDir(f, filePath) THEN R(f, "IsDirectory")
  ELSE Remove(f, filePath, {})

\* variant: the loop returns at the first error instead of continuing
RECURSIVE DeleteFiles_StopsAtError(_, _)
DeleteFiles_StopsAtError(f, filePaths) ==
  IF Len(filePaths) > 0 /\ DeleteFile(f, Head(filePaths)).err = Nil
  THEN DeleteFiles_StopsAtError(DeleteFile(f, Head(filePaths)).fs, Tail(filePaths))
  ELSE f

\* the file system after the loop over filePaths; DeleteFiles returns nothing
RECURSIVE DeleteFiles(_, _)
DeleteFiles(f, filePaths) ==
  IF Len(filePaths) > 0
  THEN DeleteFiles(DeleteFile(f, Head(filePaths)).fs, Tail(filePaths))
  ELSE f

OpenFile(f, path, flag, held) ==
  IF PathExist(f, path) THEN OsOpenFile(f, path, flag, held)
  ELSE IF Dir(path) = Root THEN OsOpenFile(f, path, flag, held)
  ELSE LET c == CreateDirectory(f, Dir(path)) IN
       IF c.err # Nil THEN [fs |-> c.fs, err |-> c.err, ino |-> 0]
       ELSE OsOpenFile(c.fs, path, flag, held)

Link(f, src, linkName) ==
  IF PathExist(f, linkName)
  THEN LET d == DeleteFile(f, linkName) IN
       IF d.err # Nil THEN d ELSE OsLink(d.fs, src, linkName)
  ELSE OsLink(f, src, linkName)

\* variant: the loop ends after the first buffer
CopyLoop_OneRound(f, s, d, off) ==
  LET chunk == ReadChunk(f, s, off) IN
  IF Len(chunk) = 0 THEN f ELSE WriteChunk(f, d, off, chunk)

\* the read/write loop of CopyFile from offset off of the source
RECURSIVE CopyLoop(_, _, _, _)
CopyLoop(f, s, d, off) ==
  LET chunk == ReadChunk(f, s, off) IN
  IF Len(chunk) = 0 THEN f
  ELSE CopyLoop(WriteChunk(f, d, off, chunk), s, d, off + Len(chunk))

\* variant: no existence check of dst before it is opened for writing
CopyFile_NoDstCheck(f, src, dst) ==
  IF ~IsRegularFile(f, src) THEN R(f, "NotRegularFile")
  ELSE LET s == OpenFile(f, src, "r", {}) IN
       IF s.err # Nil THEN R(s.fs, s.err)
       ELSE LET d == OpenFile(s.fs, dst, "w", {s.ino}) IN
            IF d.err # Nil THEN R(d.fs, d.err)
            ELSE R(CopyLoop(d.fs, s.ino, d.ino, 0), Nil)

CopyFile(f, src, dst) ==
  IF ~IsRegularFile(f, src) THEN R(f, "NotRegularFile")
  ELSE LET s == OpenFile(f, src, "r", {}) IN
       IF s.err # Nil THEN R(s.fs, s.err)
       ELSE IF PathExist(s.fs, dst) THEN R(s.fs, "DestinationExists")
       ELSE LET d == OpenFile(s.fs, dst, "w", {s.ino}) IN
            IF d.err # Nil THEN R(d.fs, d.err)
            ELSE R(CopyLoop(d.fs, s.ino, d.ino, 0), Nil)

\* variant: dst becomes a link to the file and src is not removed
MoveFile_KeepsSrc(f, src, dst) ==
  IF ~IsRegularFile(f, src) THEN R(f, "NotRegularFile")
  ELSE IF PathExist(f, dst) /\ ~IsDir(f, dst)
       THEN LET d == DeleteFile(f, dst) IN
            IF d.err # Nil THEN d ELSE OsLink(d.fs, src, dst)
  ELSE OsLink(f, src, dst)

MoveFile(f, src, dst) ==
  IF ~IsRegularFile(f, src) THEN R(f, "NotRegularFile")
  ELSE IF PathExist(f, dst) /\ ~IsDir(f, dst)
       THEN LET d == DeleteFile(f, dst) IN
            IF d.err # Nil THEN d ELSE Rename(d.fs, src, dst, {})
  ELSE Rename(f, src, dst, {})

\* ------------------------------------------------------------------ digest
\* A digest is the sequence of its lowercase hexadecimal digits; the empty
\* sequence is the empty string.
NoDigest == <<>>

HexDigits == <<"0", "1", "2", "3", "4", "5", "6", "7", "8", "9", "a", "b", "c", "d", "e", "f">>

\* the accumulator of md5.New() after the bytes of c: a hash of one byte
\* that separates all contents of up to 7 bytes
RECURSIVE HashSum(_, _)
HashSum(h, c) ==
  IF c = <<>> THEN h ELSE HashSum((2 * h + Head(c)) % 256, Tail(c))

\* fmt.Sprintf("%x", sum)
Sprintfx(n) == <<HexDigits[(n \div 16) + 1], HexDigits[(n % 16) + 1]>>

Md5Sum(f, name) ==
  IF ~IsRegularFile(f, name) THEN NoDigest
  ELSE LET o == OpenFile(f, name, "r", {}) IN
       IF o.err # Nil THEN NoDigest
       ELSE Sprintfx(HashSum(1, f.data[o.ino]))

MoveFileAfterCheckMd5(f, src, dst, md5) ==
  IF ~IsRegularFile(f, src) THEN R(f, "NotRegularFile")
  ELSE LET m == Md5Sum(f, src) IN
       IF m # md5 THEN R(f, "DigestMismatch")
       ELSE MoveFile(f, src, dst)

\* ------------------------------------------------------------------- state
VARIABLES
  fs,      \* the file system
  pre,     \* the file system when the last call was made
  last,    \* the last call: its name, arguments and results
  pc,      \* position of the call in progress (step-wise specification)
  h,       \* the handles of the call in progress
  defers,  \* the deferred Close calls of the call in progress, in order
  buf,     \* the bytes of buf[:n] after the last Read
  theirs   \* what another caller wrote while the call was in progress

vars == <<fs, pre, last, pc, h, defers, buf, theirs>>

HandleNames == {"s", "d", "f"}
Closed == [open |-> FALSE, ino |-> 0, off |-> 0]

Call(op, src, dst, paths, md5, err, sum) ==
  [op |-> op, src |-> src, dst |-> dst, paths |-> paths, md5 |-> md5, err |-> err, sum |-> sum]

NoCall == Call("none", Root, Root, <<>>, NoDigest, Nil, NoDigest)

Init ==
  /\ fs = EmptyFS
  /\ pre = EmptyFS
  /\ last = NoCall
  /\ pc = "idle"
  /\ h = [n \in HandleNames |-> Closed]
  /\ defers = <<>>
  /\ buf = <<>>
  /\ theirs = {}

\* the digests a caller passes for the file at p: none, the digests of two
\* short contents, and the digest of the bytes at p
Digests(f, p) ==
  {NoDigest, Sprintfx(HashSum(1, <<>>)), Sprintfx(HashSum(1, <<0>>))}
    \cup (IF IsRegularFile(f, p) THEN {Sprintfx(HashSum(1, f.data[f.ent[p].ino]))} ELSE {})

PathLists == UNION {[1..n -> Paths] : n \in 0..MaxBatch}

\* an atomic call: the file system r.fs and the record of the call
Returns(r, call) ==
  /\ pc = "idle"
  /\ pre' = fs
  /\ fs' = r.fs
  /\ last' = call
  /\ pc' = "returned"
  /\ UNCHANGED <<h, defers, buf, theirs>>

\* the caller takes the result and is ready for its next call
Resume ==
  /\ pc = "returned"
  /\ pc' = "idle"
  /\ pre' = fs
  /\ last' = NoCall
  /\ UNCHANGED <<fs, h, defers, buf, theirs>>

\* ---------------------------------------------------- the user of the tree
\* writes content c to path p, creating the file when its directory exists
WriteFile ==
  \E p \in Paths, c \in Contents :
    LET o == OsOpenFile(fs, p, "w", {}) IN
    /\ pc = "idle"
    /\ o.err = Nil
    /\ fs' = [o.fs EXCEPT !.data[o.ino] = c]
    /\ pre' = fs'
    /\ last' = NoCall
    /\ UNCHANGED <<pc, h, defers, buf, theirs>>

\* takes away or gives back the read permission of the file at p
Chmod ==
  \E p \in Paths :
    /\ pc = "idle"
    /\ IsRegularFile(fs, p)
    /\ fs' = [fs EXCEPT !.rd[fs.ent[p].ino] = ~@]
    /\ pre' = fs'
    /\ last' = NoCall
    /\ UNCHANGED <<pc, h, defers, buf, theirs>>

\* ------------------------------------------------------------ atomic calls
DoCreateDirectory ==
  \E p \in Paths :
    LET r == CreateDirectory(fs, p) IN
    Returns(r, Call("CreateDirectory", p, Root, <<>>, NoDigest, r.err, NoDigest))

DoDeleteFile ==
  \E p \in Paths :
    LET r == DeleteFile(fs, p) IN
    Returns(r, Call("DeleteFile", p, Root, <<>>, NoDigest, r.err, NoDigest))

DoDeleteFiles ==
  \E ps \in PathLists :
    Returns(R(DeleteFiles(fs, ps), Nil),
            Call("DeleteFiles", Root, Root, ps, NoDigest, Nil, NoDigest))

DoLink ==
  \E s \in Paths, l \in Paths :
    LET r == Link(fs, s, l) IN
    Returns(r, Call("Link", s, l, <<>>, NoDigest, r.err, NoDigest))

DoCopyFile ==
  \E s \in Paths, d \in Paths :
    LET r == CopyFile(fs, s, d) IN
    Returns(r, Call("CopyFile", s, d, <<>>, NoDigest, r.err, NoDigest))

DoMoveFile ==
  \E s \in Paths, d \in Paths :
    LET r == MoveFile(fs, s, d) IN
    Returns(r, Call("MoveFile", s, d, <<>>, NoDigest, r.err, NoDigest))

DoMoveFileAfterCheckMd5 ==
  \E s \in Paths, d \in Paths :
    \E m \in Digests(fs, s) :
    LET r == MoveFileAfterCheckMd5(fs, s, d, m) IN
    Returns(r, Call("MoveFileAfterCheckMd5", s, d, <<>>, m, r.err, NoDigest))

DoMd5Sum ==
  \E p \in Paths :
    Returns(R(fs, Nil), Call("Md5Sum", p, Root, <<>>, NoDigest, Nil, Md5Sum(fs, p)))

Next ==
  \/ Resume
  \/ WriteFile
  \/ Chmod
  \/ DoCreateDirectory
  \/ DoDeleteFile
  \/ DoDeleteFiles
  \/ DoLink
  \/ DoCopyFile
  \/ DoMoveFile
  \/ DoMoveFileAfterCheckMd5
  \/ DoMd5Sum

Spec == Init /\ [][Next]_vars

\* ------------------------------------------------------------ observations
Returned(op) == pc = "returned" /\ last.op = op

\* the bytes of the regular file at p
Content(f, p) == f.data[f.ent[p].ino]

Readable(f, p) == f.rd[f.ent[p].ino]

\* the digest of the bytes of the regular file at p, readable or not
ContentDigest(f, p) == Sprintfx(HashSum(1, Content(f, p)))

\* the entry at p is the same in f and g: same kind, same inode, same bytes
SameAt(f, g, p) ==
  /\ f.ent[p] = g.ent[p]
  /\ f.ent[p].k = "file" =>
       /\ Content(f, p) = Content(g, p)
       /\ Readable(f, p) = Readable(g, p)

InList(p, ps) == \E i \in 1..Len(ps) : ps[i] = p

\* ---------------------------------------------------------------- MoveFile
\* the outcome of a successful move of src to dst
Moved(src, dst) ==
  /\ last.err = Nil
  /\ ~PathExist(fs, src)
  /\ IsRegularFile(fs, dst)
  /\ Content(fs, dst) = Content(pre, src)
  /\ Md5Sum(fs, dst) = Md5Sum(pre, src)

\* C1, as stated: for src a regular file and dst absent or an existing
\* non-directory, MoveFile returns no error, src is gone and dst holds the
\* content and digest src had.
C1_AsStated ==
  (Returned("MoveFile") /\ IsRegularFile(pre, last.src) /\ ~IsDir(pre, last.dst))
    => Moved(last.src, last.dst)

\* C1, amended: the move succeeds as stated when dst is another path than src
\* and the directory of dst exists; when dst is src the file is deleted and
\* the rename error returned; when the directory of dst is missing the rename
\* error is returned and nothing changes.
C1_MoveFile ==
  (Returned("MoveFile") /\ IsRegularFile(pre, last.src) /\ ~IsDir(pre, last.dst))
    => /\ (last.src # last.dst /\ IsDir(pre, Dir(last.dst)))
            => Moved(last.src, last.dst)
       /\ last.src = last.dst
            => last.err = "ENOENT" /\ ~PathExist(fs, last.src)
       /\ ~IsDir(pre, Dir(last.dst))
            => last.err \in {"ENOENT", "ENOTDIR"} /\ fs = pre

\* a move onto an existing file of other content
C1_Witness ==
  /\ Returned("MoveFile")
  /\ last.err = Nil
  /\ IsRegularFile(pre, last.dst)
  /\ Content(pre, last.dst) # Content(pre, last.src)
  /\ Len(Content(fs, last.dst)) = MaxLen

\* --------------------------------------------------- MoveFileAfterCheckMd5
\* C2: MoveFileAfterCheckMd5 reaches MoveFile, and changes the file system,
\* only if the digest of src was computed and equals the expected digest.
C2_IntegrityGate ==
  (/\ Returned("MoveFileAfterCheckMd5")
   /\ \/ last.err \notin {"NotRegularFile", "DigestMismatch"}
      \/ fs # pre)
    => /\ Md5Sum(pre, last.src) # NoDigest
       /\ Md5Sum(pre, last.src) = last.md5

\* C3: with src a regular file whose digest differs from the digest passed
\* in, MoveFileAfterCheckMd5 returns DigestMismatch and changes nothing.
C3_MismatchLeavesFiles ==
  (/\ Returned("MoveFileAfterCheckMd5")
   /\ IsRegularFile(pre, last.src)
   /\ ContentDigest(pre, last.src) # last.md5)
    => last.err = "DigestMismatch" /\ fs = pre

\* ---------------------------------------------------------------- CopyFile
\* C4, as stated: with src a regular file and dst existing, CopyFile fails
\* with DestinationExists and leaves dst unmodified.
C4_AsStated ==
  (Returned("CopyFile") /\ IsRegularFile(pre, last.src) /\ PathExist(pre, last.dst))
    => last.err = "DestinationExists" /\ fs = pre

\* C4, amended: with src a regular file and dst existing, CopyFile fails and
\* changes nothing: with DestinationExists when src can be opened for
\* reading, with the error of opening src when it cannot.
C4_CopyNeverOverwrites ==
  (Returned("CopyFile") /\ IsRegularFile(pre, last.src) /\ PathExist(pre, last.dst))
    => /\ fs = pre
       /\ Readable(pre, last.src) => last.err = "DestinationExists"
       /\ ~Readable(pre, last.src) => last.err = "EACCES"

\* a refused copy onto an existing file with content
C4_Witness ==
  /\ Returned("CopyFile")
  /\ last.err = "DestinationExists"
  /\ last.src # last.dst
  /\ IsRegularFile(pre, last.dst)
  /\ Len(Content(fs, last.dst)) > 0
  /\ Content(fs, last.dst) # Content(fs, last.src)

\* the outcome of a successful copy of src to dst
Copied(src, dst) ==
  /\ last.err = Nil
  /\ IsRegularFile(fs, dst)
  /\ Content(fs, dst) = Content(pre, src)
  /\ Md5Sum(fs, src) = Md5Sum(fs, dst)
  /\ Md5Sum(fs, dst) # NoDigest
  /\ SameAt(fs, pre, src)
  /\ IsDir(fs, Dir(dst))

\* C5, as stated: for a regular readable src and a dst that does not exist,
\* CopyFile returns no error, dst holds the bytes of src, src is unchanged
\* and the directory of dst exists.
C5_AsStated ==
  (/\ Returned("CopyFile")
   /\ IsRegularFile(pre, last.src) /\ Readable(pre, last.src)
   /\ ~PathExist(pre, last.dst))
    => Copied(last.src, last.dst)

\* C5, amended: the copy succeeds as stated when no ancestor of dst is an
\* existing non-directory; when one is, CopyFile fails with NotADirectory
\* and changes nothing.
C5_CopyFile ==
  (/\ Returned("CopyFile")
   /\ IsRegularFile(pre, last.src) /\ Readable(pre, last.src)
   /\ ~PathExist(pre, last.dst))
    => /\ StatErr(pre, last.dst) = "ENOENT" => Copied(last.src, last.dst)
       /\ StatErr(pre, last.dst) = "ENOTDIR"
            => last.err = "NotADirectory" /\ fs = pre

\* a copy in several rounds into a directory the call created
C5_Witness ==
  /\ Returned("CopyFile")
  /\ last.err = Nil
  /\ Len(Content(fs, last.dst)) > BufferSize
  /\ ~PathExist(pre, Dir(last.dst))
  /\ IsDir(fs, Dir(last.dst))

\* ------------------------------------------------------------- DeleteFiles
\* C6: DeleteFiles removes every listed path that was a file, whatever
\* fails before it in the list, reports no error, and leaves directories
\* and the paths not listed as they were.
C6_DeleteFiles ==
  Returned("DeleteFiles")
    => /\ last.err = Nil
       /\ \A p \in Paths :
            /\ (InList(p, last.paths) /\ IsRegularFile(pre, p)) => ~PathExist(fs, p)
            /\ (~InList(p, last.paths) \/ ~IsRegularFile(pre, p)) => SameAt(fs, pre, p)

\* a batch whose first path fails and whose later path is removed
C6_Witness ==
  /\ Returned("DeleteFiles")
  /\ Len(last.paths) >= 2
  /\ DeleteFile(pre, last.paths[1]).err # Nil
  /\ IsRegularFile(pre, last.paths[Len(last.paths)])
  /\ ~PathExist(fs, last.paths[Len(last.paths)])
  /\ \E p \in Paths : IsDir(pre, p) /\ InList(p, last.paths)

\* --------------------------------------------------------- CreateDirectory
\* C7: on a path that is absent (no ancestor a non-directory) or a
\* directory, CreateDirectory succeeds, the path is a directory, and a second
\* call succeeds and changes nothing; on a path that exists and is not a
\* directory it fails with NotADirectory and changes nothing.
C7_CreateDirectory ==
  Returned("CreateDirectory")
    => /\ (StatErr(pre, last.src) = "ENOENT" \/ IsDir(pre, last.src))
            => /\ last.err = Nil
               /\ IsDir(fs, last.src)
               /\ CreateDirectory(fs, last.src) = R(fs, Nil)
       /\ (PathExist(pre, last.src) /\ ~IsDir(pre, last.src))
            => last.err = "NotADirectory" /\ fs = pre

\* a directory created together with its missing parent
C7_Witness ==
  /\ Returned("CreateDirectory")
  /\ last.err = Nil
  /\ ~PathExist(pre, Dir(last.src))
  /\ Dir(last.src) # Root
  /\ IsDir(fs, last.src)

\* -------------------------------------------------------------------- Link
\* C10: when Link returns an error, an entry that existed at linkName still
\* exists with its content.
C10_LinkKeepsTarget ==
  (Returned("Link") /\ last.err # Nil /\ PathExist(pre, last.dst))
    => PathExist(fs, last.dst) /\ SameAt(fs, pre, last.dst)

\* ------------------------------------------------ CopyFile, line by line
\* CopyFile and Md5Sum statement by statement, with the handles they hold,
\* the I/O errors the reads and writes may return, and another caller that
\* writes the destination while the copy is in progress.

InProgress == pc \notin {"idle", "returned"}

\* the inodes the open handles refer to
Held == {h[n].ino : n \in {m \in HandleNames : h[m].open}}

Opened(ino) == [open |-> TRUE, ino |-> ino, off |-> 0]

\* a file system with one more file
WithFile(f, p, c, r) ==
  LET o == OsOpenFile(f, p, "w", {}) IN
  [o.fs EXCEPT !.data[o.ino] = c, !.rd[o.ino] = r]

\* the trees a call starts from: no file or one file, with or without the
\* directory a
StartFS ==
  LET trees == {EmptyFS, MkdirAll(EmptyFS, <<"a">>).fs} IN
  trees \cup
  UNION {{WithFile(g, p, c, r) :
            p \in {q \in Paths : OsOpenFile(g, q, "w", {}).err = Nil},
            c \in Contents, r \in BOOLEAN} : g \in trees}

InitSteps ==
  /\ fs \in StartFS
  /\ pre = fs
  /\ last = NoCall
  /\ pc = "idle"
  /\ h = [n \in HandleNames |-> Closed]
  /\ defers = <<>>
  /\ buf = <<>>
  /\ theirs = {}

\* a return statement: the deferred calls run next
Return(e) ==
  /\ last' = [last EXCEPT !.err = e]
  /\ pc' = "defer"

\* the deferred Close calls run last registered first, then the call returns
RunDeferred ==
  /\ pc = "defer"
  /\ IF defers = <<>>
     THEN /\ pc' = "returned"
          /\ UNCHANGED <<fs, h, defers>>
     ELSE /\ h' = [h EXCEPT ![defers[Len(defers)]] = Closed]
          /\ defers' = SubSeq(defers, 1, Len(defers) - 1)
          /\ fs' = Collect(fs, {h'[n].ino : n \in {m \in HandleNames : h'[m].open}})
          /\ UNCHANGED pc
  /\ UNCHANGED <<pre, last, buf, theirs>>

CallCopyFile ==
  \E s \in Paths, d \in Paths :
    /\ pc = "idle"
    /\ pc' = "copy95"
    /\ pre' = fs
    /\ last' = Call("CopyFile", s, d, <<>>, NoDigest, "pending", NoDigest)
    /\ UNCHANGED <<fs, h, defers, buf, theirs>>

\* if !IsRegularFile(src)
Copy95 ==
  /\ pc = "copy95"
  /\ IF ~IsRegularFile(fs, last.src)
     THEN Return("NotRegularFile")
     ELSE pc' = "copy98" /\ UNCHANGED last
  /\ UNCHANGED <<fs, pre, h, defers, buf, theirs>>

\* s, err := OpenFile(src, os.O_RDONLY, 0666); defer s.Close()
Copy98 ==
  /\ pc = "copy98"
  /\ LET o == OpenFile(fs, last.src, "r", Held) IN
     /\ fs' = o.fs
     /\ IF o.err # Nil
        THEN Return(o.err) /\ UNCHANGED <<h, defers>>
        ELSE /\ h' = [h EXCEPT !.s = Opened(o.ino)]
             /\ defers' = Append(defers, "s")
             /\ pc' = "copy104"
             /\ UNCHANGED last
  /\ UNCHANGED <<pre, buf, theirs>>

\* variant: the existence check of dst is not made
Copy104_NoCheck ==
  /\ pc = "copy104"
  /\ pc' = "copy108"
  /\ UNCHANGED <<fs, pre, last, h, defers, buf, theirs>>

\* if PathExist(dst)
Copy104 ==
  /\ pc = "copy104"
  /\ IF PathExist(fs, last.dst)
     THEN Return("DestinationExists")
     ELSE pc' = "copy108" /\ UNCHANGED last
  /\ UNCHANGED <<fs, pre, h, defers, buf, theirs>>

\* variant: the Close of d is not deferred
Copy108_NoDefer ==
  /\ pc = "copy108"
  /\ LET o == OpenFile(fs, last.dst, "w", Held) IN
     /\ fs' = o.fs
     /\ IF o.err # Nil
        THEN Return(o.err) /\ UNCHANGED h
        ELSE /\ h' = [h EXCEPT !.d = Opened(o.ino)]
             /\ pc' = "copy116"
             /\ UNCHANGED last
  /\ UNCHANGED <<pre, defers, buf, theirs>>

\* d, err := OpenFile(dst, os.O_WRONLY|os.O_TRUNC|os.O_CREATE, 0755); defer d.Close()
Copy108 ==
  /\ pc = "copy108"
  /\ LET o == OpenFile(fs, last.dst, "w", Held) IN
     /\ fs' = o.fs
     /\ IF o.err # Nil
        THEN Return(o.err) /\ UNCHANGED <<h, defers>>
        ELSE /\ h' = [h EXCEPT !.d = Opened(o.ino)]
             /\ defers' = Append(defers, "d")
             /\ pc' = "copy116"
             /\ UNCHANGED last
  /\ UNCHANGED <<pre, buf, theirs>>

\* n, err := s.Read(buf): an I/O error, the end of the file, or n bytes
Copy116 ==
  /\ pc = "copy116"
  /\ \/ Return("EIO") /\ UNCHANGED <<h, buf>>
     \/ LET chunk == ReadChunk(fs, h.s.ino, h.s.off) IN
        IF Len(chunk) = 0
        THEN Return(Nil) /\ UNCHANGED <<h, buf>>
        ELSE /\ buf' = chunk
             /\ h' = [h EXCEPT !.s.off = @ + Len(chunk)]
             /\ pc' = "copy123"
             /\ UNCHANGED last
  /\ UNCHANGED <<fs, pre, defers, theirs>>

\* d.Write(buf[:n]): an error of the volume, or the bytes are written
Copy123 ==
  /\ pc = "copy123"
  /\ \/ Return("ENOSPC") /\ UNCHANGED <<fs, h>>
     \/ /\ fs' = WriteChunk(fs, h.d.ino, h.d.off, buf)
        /\ h' = [h EXCEPT !.d.off = @ + Len(buf)]
        /\ pc' = "copy116"
        /\ UNCHANGED last
  /\ buf' = <<>>
  /\ UNCHANGED <<pre, defers, theirs>>

CallMd5Sum ==
  \E p \in Paths :
    /\ pc = "idle"
    /\ pc' = "md5_183"
    /\ pre' = fs
    /\ last' = Call("Md5Sum", p, Root, <<>>, NoDigest, "pending", NoDigest)
    /\ UNCHANGED <<fs, h, defers, buf, theirs>>

\* a return statement of Md5Sum
ReturnSum(d) ==
  /\ last' = [last EXCEPT !.err = Nil, !.sum = d]
  /\ pc' = "defer"

\* if !IsRegularFile(name)
Md5_183 ==
  /\ pc = "md5_183"
  /\ IF ~IsRegularFile(fs, last.src)
     THEN ReturnSum(NoDigest)
     ELSE pc' = "md5_186" /\ UNCHANGED last
  /\ UNCHANGED <<fs, pre, h, defers, buf, theirs>>

\* f, err := OpenFile(name, os.O_RDONLY, 0666); defer f.Close()
Md5_186 ==
  /\ pc = "md5_186"
  /\ LET o == OpenFile(fs, last.src, "r", Held) IN
     /\ fs' = o.fs
     /\ IF o.err # Nil
        THEN ReturnSum(NoDigest) /\ UNCHANGED <<h, defers>>
        ELSE /\ h' = [h EXCEPT !.f = Opened(o.ino)]
             /\ defers' = Append(defers, "f")
             /\ pc' = "md5_194"
             /\ UNCHANGED last
  /\ UNCHANGED <<pre, buf, theirs>>

\* _, err = io.Copy(h, r): an I/O error, or the whole file is hashed
Md5_194 ==
  /\ pc = "md5_194"
  /\ \/ ReturnSum(NoDigest)
     \/ ReturnSum(Sprintfx(HashSum(1, fs.data[h.f.ino])))
  /\ UNCHANGED <<fs, pre, h, defers, buf, theirs>>

\* what another caller may write to the destination
TheirContents == Contents \ {<<>>}

\* Another caller creates or rewrites the destination of the copy in
\* progress, once, at any point of it.
OtherWrites ==
  /\ InProgress
  /\ last.op = "CopyFile"
  /\ theirs = {}
  /\ \E c \in TheirContents :
       LET o == OsOpenFile(fs, last.dst, "w", Held) IN
       /\ o.err = Nil
       /\ fs' = [o.fs EXCEPT !.data[o.ino] = c]
       /\ theirs' = {[path |-> last.dst, data |-> c, at |-> pc]}
  /\ UNCHANGED <<pre, last, pc, h, defers, buf>>

NextSteps ==
  \/ CallCopyFile
  \/ Copy95
  \/ Copy98
  \/ Copy104
  \/ Copy108
  \/ Copy116
  \/ Copy123
  \/ CallMd5Sum
  \/ Md5_183
  \/ Md5_186
  \/ Md5_194
  \/ RunDeferred
  \/ OtherWrites

SpecSteps == InitSteps /\ [][NextSteps]_vars

\* ----------------------------------------------------------------- handles
\* C8: when CopyFile or Md5Sum has returned, with success or with any
\* error, no handle the call opened is still open.
C8_HandlesReleased ==
  pc = "returned" => \A n \in HandleNames : ~h[n].open

\* a copy that returned a write error after it had opened both files
C8_Witness ==
  /\ Returned("CopyFile")
  /\ last.err = "ENOSPC"
  /\ IsRegularFile(fs, last.dst)
  /\ Len(Content(fs, last.dst)) > 0
  /\ Len(Content(fs, last.dst)) < Len(Content(fs, last.src))

\* ------------------------------------------------- CopyFile, interleaved
\* C9, as stated: CopyFile never truncates or overwrites what another
\* caller put at dst, at whatever point of the copy it was put there.
C9_AsStated ==
  \A t \in theirs : IsRegularFile(fs, t.path) /\ Content(fs, t.path) = t.data

\* the positions before the existence check of line 104 has been made
BeforeCheck == {"copy95", "copy98", "copy104"}

\* C9, amended: what another caller put at dst before CopyFile checked the
\* existence of dst is never truncated or overwritten, and the copy fails;
\* what is put there after the check is truncated and overwritten.
C9_CheckedDstKept ==
  \A t \in theirs :
    t.at \in BeforeCheck
      => /\ IsRegularFile(fs, t.path)
         /\ Content(fs, t.path) = t.data
         /\ pc = "returned" => last.err # Nil

\* a copy refused because another caller created dst just before the check
C9_Witness ==
  /\ Returned("CopyFile")
  /\ last.err = "DestinationExists"
  /\ ~PathExist(pre, last.dst)
  /\ \E t \in theirs : t.at = "copy104" /\ Content(fs, t.path) = t.data

====
